---- MODULE Spec2Model ----
(***************************************************************************)
(* A model of the LiFX controller command line (src/src/main.rs): one run  *)
(* of `main`, from reading LIFX_TOKEN to process exit.  Strings the code   *)
(* compares or converts (labels, group names, selector, brightness,        *)
(* colour) are sequences of bytes; text the code only copies (light ids,   *)
(* URLs, statuses) is TLA+ strings.  Option<T> is a sequence of length at  *)
(* most one: None is <<>> and Some(x) is <<x>>.                            *)
(***************************************************************************)
EXTENDS Integers, Sequences, FiniteSets, TLC

VARIABLES pc, token, requests, inflight, http, lights, matches, state,
          idx, resp, output, exit, failure

vars == <<pc, token, requests, inflight, http, lights, matches, state,
          idx, resp, output, exit, failure>>

None == <<>>
Some(x) == <<x>>

(* ------------------------------ bounds --------------------------------- *)
MaxLights == 2
MaxSelLen == 2

(* ------------------------- bytes and strings --------------------------- *)
\* u8::to_ascii_lowercase: only b'A'..=b'Z' change, by setting bit 5.
ByteToAsciiLowercase(b) == IF b >= 65 /\ b <= 90 THEN b + 32 ELSE b

\* str::to_ascii_lowercase: a copy with every byte lowered.
ToAsciiLowercase(s) == [i \in 1..Len(s) |-> ByteToAsciiLowercase(s[i])]

\* str::contains(&str), as a left-to-right scan for the needle.
RECURSIVE ContainsFrom(_, _, _)
ContainsFrom(hay, needle, i) ==
    IF i + Len(needle) - 1 > Len(hay) THEN FALSE
    ELSE IF SubSeq(hay, i, i + Len(needle) - 1) = needle THEN TRUE
    ELSE ContainsFrom(hay, needle, i + 1)

Contains(hay, needle) == ContainsFrom(hay, needle, 1)

\* All byte strings over alphabet a of length at most n.
StringsUpTo(a, n) == UNION {[1..k -> a] : k \in 0..n}

(* ------------------------------ inputs --------------------------------- *)
\* The account's lights in the order the vendor lists them.  Labels and
\* group names mix upper and lower case: "BA"/"b", "Ab"/"B", "a"/"bA",
\* "b"/"aA".
Catalogue ==
    << [id |-> "d073d5000003", label |-> <<66, 65>>, group |-> <<98>>],
       [id |-> "d073d5000001", label |-> <<65, 98>>, group |-> <<66>>],
       [id |-> "d073d5000004", label |-> <<97>>,     group |-> <<98, 65>>],
       [id |-> "d073d5000002", label |-> <<98>>,     group |-> <<97, 65>>] >>

\* The lights of Catalogue at the positions in S, in catalogue order.
RECURSIVE Pick(_, _)
Pick(S, i) ==
    IF i > Len(Catalogue) THEN <<>>
    ELSE (IF i \in S THEN <<Catalogue[i]>> ELSE <<>>) \o Pick(S, i + 1)

\* A GET body that deserialises as Vec<Light>: up to MaxLights of the
\* account's lights.
Inventories ==
    {Pick(S, 1) : S \in {T \in SUBSET (1..Len(Catalogue)) : Cardinality(T) <= MaxLights}}

\* Values of -s/--selector: every string over 'a', 'B' up to MaxSelLen.
SelectorArgs == StringsUpTo({97, 66}, MaxSelLen)

\* Values of -b/--brightness: "0.5", ".5" and "x".
BrightnessArgs == {<<48, 46, 53>>, <<46, 53>>, <<120>>}

\* Values of -c/--colour: "red".
ColourArgs == {<<114, 101, 100>>}

OptionOf(S) == {None} \cup {Some(x) : x \in S}

NoFlags == [on |-> FALSE, off |-> FALSE, brightness |-> None,
            colour |-> None, selector |-> None]

\* Command lines: `set` with any combination of flags, `list`, no
\* subcommand, --help, and a line clap rejects.
SetArgv ==
    [cmd : {"set"}, on : BOOLEAN, off : BOOLEAN,
     brightness : OptionOf(BrightnessArgs), colour : OptionOf(ColourArgs),
     selector : OptionOf(SelectorArgs)]

Argv ==
    SetArgv \cup
    {[cmd |-> c] @@ NoFlags : c \in {"list", "none", "help", "invalid"}}

HttpStatuses == {200, 401}

IsSuccess(status) == status >= 200 /\ status <= 299

\* Bodies of a PUT response that deserialise as SetStateResponse.
ResultLists == {<<>>, <<"ok">>, <<"ok", "offline">>}

SetStateResponses ==
    [results : OptionOf(ResultLists), error : OptionOf({"bad request"})]

\* An HTTP response: a status and a body; body None stands for a body
\* that does not deserialise as the type the caller asks for.
GetResponses == [status : HttpStatuses, body : OptionOf(Inventories)]
PutResponses == [status : HttpStatuses, body : OptionOf(SetStateResponses)]

(* ------------------------------- URLs ---------------------------------- *)
AllLightsUrl == "https://api.lifx.com/v1/lights/all"

LightUrl(id) == "https://api.lifx.com/v1/lights/id:" \o id \o "/state"

(* ------------------------ payload construction ------------------------- *)
IsDigit(b) == b >= 48 /\ b <= 57

RECURSIVE DigitsVal(_)
DigitsVal(s) ==
    IF s = <<>> THEN 0
    ELSE 10 * DigitsVal(SubSeq(s, 1, Len(s) - 1)) + (s[Len(s)] - 48)

\* A decimal m * 10^-e without trailing fraction zeros.
RECURSIVE Normalise(_)
Normalise(v) ==
    IF v.e > 0 /\ v.m % 10 = 0 THEN Normalise([m |-> v.m \div 10, e |-> v.e - 1])
    ELSE v

\* ParseF32 with a default in place of the error.
ParseF32OrZero(s) == Some([m |-> 0, e |-> 0])

\* str::parse::<f32> on strings of digits and '.': digits with at most one
\* '.', at least one digit; anything else is Err (None).  The value is the
\* decimal the text denotes.
ParseF32(s) ==
    LET dots == {i \in 1..Len(s) : s[i] = 46}
        digs == {i \in 1..Len(s) : IsDigit(s[i])}
    IN  IF Cardinality(dots) > 1 \/ digs = {} \/ dots \cup digs # 1..Len(s)
        THEN None
        ELSE LET p  == IF dots = {} THEN Len(s) + 1 ELSE CHOOSE i \in dots : TRUE
                 ip == SubSeq(s, 1, p - 1)
                 fp == SubSeq(s, p + 1, Len(s))
             IN  Some(Normalise([m |-> DigitsVal(ip \o fp), e |-> Len(fp)]))

\* BuildPower with `off` tested first.
BuildPowerOffFirst(m) ==
    IF m.off THEN Some("Off") ELSE IF m.on THEN Some("On") ELSE None

\* main.rs:57-63: `on` is tested first, then `off`.
BuildPower(m) == IF m.on THEN Some("On") ELSE IF m.off THEN Some("Off") ELSE None

\* main.rs:69-73: the colour is passed through verbatim.
BuildColor(m) == IF m.colour # None THEN Some(m.colour[1]) ELSE None

\* main.rs:56-74 once the brightness, if any, has parsed.
BuildSetState(m) ==
    [power      |-> BuildPower(m),
     brightness |-> IF m.brightness # None THEN ParseF32(m.brightness[1]) ELSE None,
     color      |-> BuildColor(m)]

(* --------------------------- JSON encoding ----------------------------- *)
JsonNull == <<110, 117, 108, 108>>

JsonString(s) == <<34>> \o s \o <<34>>

RECURSIVE DigitsOf(_)
DigitsOf(n) ==
    IF n < 10 THEN <<48 + n>> ELSE DigitsOf(n \div 10) \o <<48 + (n % 10)>>

RECURSIVE Pow10(_)
Pow10(e) == IF e = 0 THEN 1 ELSE 10 * Pow10(e - 1)

RECURSIVE PadLeft(_, _)
PadLeft(s, n) == IF Len(s) >= n THEN s ELSE PadLeft(<<48>> \o s, n)

\* serde_json writes an f32 in its shortest decimal form, always with a
\* fraction: 0.5, 1.0.
JsonNumber(v) ==
    DigitsOf(v.m \div Pow10(v.e)) \o <<46>> \o
    (IF v.e = 0 THEN <<48>> ELSE PadLeft(DigitsOf(v.m % Pow10(v.e)), v.e))

\* #[serde(rename = "on")] / "off" on enum Power.
PowerName(p) == IF p = "On" THEN <<111, 110>> ELSE <<111, 102, 102>>

\* #[derive(Serialize)] on SetState: every field is written, in declaration
\* order; an Option field that is None is written as null.
Serialize(st) ==
    << [key   |-> "power",
        value |-> IF st.power = None THEN JsonNull
                  ELSE JsonString(PowerName(st.power[1]))],
       [key   |-> "brightness",
        value |-> IF st.brightness = None THEN JsonNull
                  ELSE JsonNumber(st.brightness[1])],
       [key   |-> "color",
        value |-> IF st.color = None THEN JsonNull
                  ELSE JsonString(st.color[1])] >>

(* ------------------------------ selector ------------------------------- *)
\* Matches without the group name.
MatchesLabelOnly(l, selector) ==
    Contains(ToAsciiLowercase(l.label), ToAsciiLowercase(selector))

\* The filter closure of main.rs:77-85.
Matches(l, selector) ==
    \/ Contains(ToAsciiLowercase(l.label), ToAsciiLowercase(selector))
    \/ Contains(ToAsciiLowercase(l.group), ToAsciiLowercase(selector))

\* NextMatch walking the inventory from its end.
NextMatchLast(ls, i, selector) ==
    LET S == {j \in (i + 1)..Len(ls) : Matches(ls[j], selector)}
    IN  IF S = {} THEN 0 ELSE CHOOSE j \in S : \A k \in S : k <= j

\* Iterator::next on the filtered iterator: the first light after position
\* i that passes the filter, 0 when the iterator is exhausted.
RECURSIVE NextMatch(_, _, _)
NextMatch(ls, i, selector) ==
    IF i + 1 > Len(ls) THEN 0
    ELSE IF Matches(ls[i + 1], selector) THEN i + 1
    ELSE NextMatch(ls, i + 1, selector)

(* ------------------------------- state --------------------------------- *)
Get(url) == [method |-> "GET", url |-> url, auth |-> token, body |-> None]

Put(url) == [method |-> "PUT", url |-> url, auth |-> token,
             body |-> Some(Serialize(state[1]))]

Init ==
    /\ pc = "start"
    /\ token = None
    /\ requests = <<>>
    /\ inflight = {}
    /\ http = None
    /\ lights = <<>>
    /\ matches = None
    /\ state = None
    /\ idx = 0
    /\ resp = None
    /\ output = <<>>
    /\ exit = None
    /\ failure = None

\* `?` in main: the error is returned from main and the process exits 1.
Abort(why) ==
    /\ pc' = "failed"
    /\ exit' = Some(1)
    /\ failure' = Some(why)

(* ------------------------ token and inventory -------------------------- *)
\* main.rs:14 with LIFX_TOKEN set.
ReadToken ==
    /\ pc = "start"
    /\ token' = Some("secret")
    /\ pc' = "send_get"
    /\ UNCHANGED <<requests, inflight, http, lights, matches, state, idx,
                   resp, output, exit, failure>>

\* main.rs:14 with LIFX_TOKEN unset.
ReadTokenMissing ==
    /\ pc = "start"
    /\ Abort("token")
    /\ UNCHANGED <<token, requests, inflight, http, lights, matches, state,
                   idx, resp, output>>

\* main.rs:16-19: the GET is sent.
SendGet ==
    /\ pc = "send_get"
    /\ requests' = Append(requests, Get(AllLightsUrl))
    /\ inflight' = inflight \cup {Len(requests) + 1}
    /\ pc' = "await_get"
    /\ UNCHANGED <<token, http, lights, matches, state, idx, resp, output,
                   exit, failure>>

\* main.rs:19-20: send().await yields a response, whatever its status.
RecvGet ==
    /\ pc = "await_get"
    /\ \E r \in GetResponses : http' = Some(r)
    /\ inflight' = {}
    /\ pc' = "get_json"
    /\ UNCHANGED <<token, requests, lights, matches, state, idx, resp,
                   output, exit, failure>>

\* main.rs:19-20: send().await fails (DNS, connection, timeout).
RecvGetError ==
    /\ pc = "await_get"
    /\ inflight' = {}
    /\ Abort("transport")
    /\ UNCHANGED <<token, requests, http, lights, matches, state, idx, resp,
                   output>>

\* main.rs:21-22: the body deserialises as Vec<Light>.
ParseGetBody ==
    /\ pc = "get_json"
    /\ http[1].body # None
    /\ lights' = http[1].body[1]
    /\ http' = None
    /\ pc' = "args"
    /\ UNCHANGED <<token, requests, inflight, matches, state, idx, resp,
                   output, exit, failure>>

\* main.rs:21-22: the body does not deserialise.
ParseGetBodyError ==
    /\ pc = "get_json"
    /\ http[1].body = None
    /\ http' = None
    /\ Abort("json")
    /\ UNCHANGED <<token, requests, inflight, lights, matches, state, idx,
                   resp, output>>

(* ---------------------------- command line ---------------------------- *)
\* main.rs:24-53: get_matches() on a command line clap accepts.  `on` and
\* `off` are declared without conflicts_with, so both together are accepted.
ParseArgs ==
    /\ pc = "args"
    /\ \E a \in Argv :
        /\ a.cmd \in {"set", "list", "none"}
        /\ matches' = Some(a)
    /\ pc' = "branch"
    /\ UNCHANGED <<token, requests, inflight, http, lights, state, idx, resp,
                   output, exit, failure>>

\* main.rs:53: get_matches() on a command line clap rejects: usage is
\* printed and the process exits 1.
ParseArgsUsage ==
    /\ pc = "args"
    /\ \E a \in Argv : a.cmd = "invalid"
    /\ output' = Append(output, [kind |-> "usage", text |-> <<>>])
    /\ pc' = "exited"
    /\ exit' = Some(1)
    /\ UNCHANGED <<token, requests, inflight, http, lights, matches, state,
                   idx, resp, failure>>

\* main.rs:53: get_matches() on --help: help is printed and the process
\* exits 0.
ParseArgsHelp ==
    /\ pc = "args"
    /\ \E a \in Argv : a.cmd = "help"
    /\ output' = Append(output, [kind |-> "help", text |-> <<>>])
    /\ pc' = "exited"
    /\ exit' = Some(0)
    /\ UNCHANGED <<token, requests, inflight, http, lights, matches, state,
                   idx, resp, failure>>

\* main.rs:146: main returns Ok(()).
Finish ==
    /\ pc' = "done"
    /\ exit' = Some(0)

\* main.rs:55,137: neither subcommand was given.
NoSubcommand ==
    /\ pc = "branch"
    /\ matches[1].cmd = "none"
    /\ Finish
    /\ UNCHANGED <<token, requests, inflight, http, lights, matches, state,
                   idx, resp, output, failure>>

\* One line of `list`: label and group name (power, brightness and kelvin,
\* which the line also shows, are not part of the model's Light).
ListLine(l) == [kind |-> "light", text |-> <<l.label, l.group>>]

\* main.rs:137-144.
ListLights ==
    /\ pc = "branch"
    /\ matches[1].cmd = "list"
    /\ output' = output \o [i \in 1..Len(lights) |-> ListLine(lights[i])]
    /\ Finish
    /\ UNCHANGED <<token, requests, inflight, http, lights, matches, state,
                   idx, resp, failure>>

\* main.rs:56-74 when the brightness is absent or parses.
BuildState ==
    /\ pc = "branch"
    /\ matches[1].cmd = "set"
    /\ matches[1].brightness # None => ParseF32(matches[1].brightness[1]) # None
    /\ state' = Some(BuildSetState(matches[1]))
    /\ pc' = "dispatch"
    /\ UNCHANGED <<token, requests, inflight, http, lights, matches, idx,
                   resp, output, exit, failure>>

\* main.rs:65: b.parse::<f32>()? fails.
BuildStateError ==
    /\ pc = "branch"
    /\ matches[1].cmd = "set"
    /\ matches[1].brightness # None
    /\ ParseF32(matches[1].brightness[1]) = None
    /\ Abort("brightness")
    /\ UNCHANGED <<token, requests, inflight, http, lights, matches, state,
                   idx, resp, output>>

(* ------------------------------ dispatch ------------------------------- *)
SendPut(url) ==
    /\ requests' = Append(requests, Put(url))
    /\ inflight' = inflight \cup {Len(requests) + 1}
    /\ resp' = None
    /\ pc' = "await_put"

\* SelectLights with the iterator started one light late.
SelectLightsSkipFirst ==
    /\ pc = "dispatch"
    /\ matches[1].selector # None
    /\ idx' = 1
    /\ pc' = "next_light"
    /\ UNCHANGED <<token, requests, inflight, http, lights, matches, state,
                   resp, output, exit, failure>>

\* main.rs:76-77: a selector was given; the filtered iterator is created.
SelectLights ==
    /\ pc = "dispatch"
    /\ matches[1].selector # None
    /\ idx' = 0
    /\ pc' = "next_light"
    /\ UNCHANGED <<token, requests, inflight, http, lights, matches, state,
                   resp, output, exit, failure>>

\* main.rs:77-98: the iterator yields the next matching light; its header
\* is printed and its PUT is sent.
NextLight ==
    /\ pc = "next_light"
    /\ LET j == NextMatch(lights, idx, matches[1].selector[1])
       IN  /\ j # 0
           /\ idx' = j
           /\ output' = Append(output, [kind |-> "updating",
                                        text |-> <<lights[j].label, lights[j].group>>])
           /\ SendPut(LightUrl(lights[j].id))
    /\ UNCHANGED <<token, http, lights, matches, state, exit, failure>>

\* main.rs:77,112,146: the iterator is exhausted.
LoopEnd ==
    /\ pc = "next_light"
    /\ NextMatch(lights, idx, matches[1].selector[1]) = 0
    /\ Finish
    /\ UNCHANGED <<token, requests, inflight, http, lights, matches, state,
                   idx, resp, output, failure>>

\* main.rs:113-122: no selector; one PUT to the bulk endpoint.
SendBulk ==
    /\ pc = "dispatch"
    /\ matches[1].selector = None
    /\ output' = output \o <<[kind |-> "setting_all", text |-> <<>>],
                            [kind |-> "newline", text |-> <<>>]>>
    /\ SendPut(AllLightsUrl)
    /\ UNCHANGED <<token, http, lights, matches, state, idx, exit, failure>>

\* main.rs:98-99,122-123: send().await yields a response, whatever its status.
RecvPut ==
    /\ pc = "await_put"
    /\ \E r \in PutResponses : http' = Some(r)
    /\ inflight' = {}
    /\ pc' = "put_json"
    /\ UNCHANGED <<token, requests, lights, matches, state, idx, resp, output,
                   exit, failure>>

\* main.rs:98-99,122-123: send().await fails.
RecvPutError ==
    /\ pc = "await_put"
    /\ inflight' = {}
    /\ Abort("transport")
    /\ UNCHANGED <<token, requests, http, lights, matches, state, idx, resp,
                   output>>

\* main.rs:100-101,124-125: the body deserialises as SetStateResponse.
ParsePutBody ==
    /\ pc = "put_json"
    /\ http[1].body # None
    /\ resp' = Some(http[1].body[1])
    /\ http' = None
    /\ pc' = "report"
    /\ UNCHANGED <<token, requests, inflight, lights, matches, state, idx,
                   output, exit, failure>>

\* main.rs:100-101,124-125: the body does not deserialise.
ParsePutBodyError ==
    /\ pc = "put_json"
    /\ http[1].body = None
    /\ http' = None
    /\ Abort("json")
    /\ UNCHANGED <<token, requests, inflight, lights, matches, state, idx,
                   resp, output>>

(* ------------------------------ reporting ------------------------------ *)
Newline == [kind |-> "newline", text |-> <<>>]

StatusText(r) == [kind |-> "status", text |-> <<r>>]

\* println!("Something went wrong - {:#?}", resp): the Debug form shows
\* both fields of the response.
RawText(r) == <<[kind |-> "raw", text |-> <<r.results, r.error>>], Newline>>

\* main.rs:103-111: statuses on the light's line, or the raw response; then
\* the line is ended.
LightReport(r) ==
    (IF r.results # None
     THEN [i \in 1..Len(r.results[1]) |-> StatusText(r.results[1][i])]
     ELSE RawText(r))
    \o <<Newline>>

\* main.rs:127-135: one line per status, or the raw response; then an
\* empty line.
BulkReport(r) ==
    (IF r.results # None
     THEN [i \in 1..2 * Len(r.results[1]) |->
              IF i % 2 = 1 THEN StatusText(r.results[1][(i + 1) \div 2])
              ELSE Newline]
     ELSE RawText(r))
    \o <<Newline>>

\* ReportLight leaving the loop when the response has no results.
ReportLightBreaks ==
    /\ pc = "report"
    /\ matches[1].selector # None
    /\ output' = output \o LightReport(resp[1])
    /\ IF resp[1].results = None
       THEN Finish
       ELSE pc' = "next_light" /\ UNCHANGED exit
    /\ UNCHANGED <<token, requests, inflight, http, lights, matches, state,
                   idx, resp, failure>>

\* main.rs:103-112: report, then back to the head of the loop.
ReportLight ==
    /\ pc = "report"
    /\ matches[1].selector # None
    /\ output' = output \o LightReport(resp[1])
    /\ pc' = "next_light"
    /\ UNCHANGED <<token, requests, inflight, http, lights, matches, state,
                   idx, resp, exit, failure>>

\* main.rs:127-136,146: report, then main returns.
ReportBulk ==
    /\ pc = "report"
    /\ matches[1].selector = None
    /\ output' = output \o BulkReport(resp[1])
    /\ Finish
    /\ UNCHANGED <<token, requests, inflight, http, lights, matches, state,
                   idx, resp, failure>>

Next ==
    \/ ReadToken
    \/ ReadTokenMissing
    \/ SendGet
    \/ RecvGet
    \/ RecvGetError
    \/ ParseGetBody
    \/ ParseGetBodyError
    \/ ParseArgs
    \/ ParseArgsUsage
    \/ ParseArgsHelp
    \/ NoSubcommand
    \/ ListLights
    \/ BuildState
    \/ BuildStateError
    \/ SelectLights
    \/ NextLight
    \/ LoopEnd
    \/ SendBulk
    \/ RecvPut
    \/ RecvPutError
    \/ ParsePutBody
    \/ ParsePutBodyError
    \/ ReportLight
    \/ ReportBulk

Spec == Init /\ [][Next]_vars

(* ===================== properties of the run =========================== *)
PutRequests == SelectSeq(requests, LAMBDA r : r.method = "PUT")

PutUrls == [i \in 1..Len(PutRequests) |-> PutRequests[i].url]

\* A `set` run whose payload was built.
IsSet == matches # None /\ matches[1].cmd = "set"

PerLight == IsSet /\ matches[1].selector # None

\* The lights of the inventory that pass the selector, in inventory order.
MatchedLights ==
    SelectSeq(lights, LAMBDA l : Matches(l, matches[1].selector[1]))

MatchedUrls == [i \in 1..Len(MatchedLights) |-> LightUrl(MatchedLights[i].id)]

Range(f) == {f[i] : i \in DOMAIN f}

\* s occurs in t as a contiguous run of bytes.
IsSubstring(s, t) ==
    \E k \in 0..(Len(t) - Len(s)) : \A i \in 1..Len(s) : t[k + i] = s[i]

\* The case fold of the selector is a substring of the case fold of the
\* light's label or of its group name.
SelectorNames(l, s) ==
    \/ IsSubstring(ToAsciiLowercase(s), ToAsciiLowercase(l.label))
    \/ IsSubstring(ToAsciiLowercase(s), ToAsciiLowercase(l.group))

Targeted(l) == \E i \in 1..Len(PutUrls) : PutUrls[i] = LightUrl(l.id)

\* C1: in a `set` run that completes, the selector alone decides the PUTs:
\* given, one PUT to /lights/id:<id>/state per matching light, in order,
\* none to the bulk endpoint, and with no match no PUT and no output;
\* absent, exactly one PUT, to /lights/all, whatever the inventory holds.
C1_SelectorDecidesDispatch ==
    (pc = "done" /\ IsSet) =>
        IF matches[1].selector # None
        THEN /\ PutUrls = MatchedUrls
             /\ AllLightsUrl \notin Range(PutUrls)
             /\ (MatchedLights = <<>> => PutUrls = <<>> /\ output = <<>>)
        ELSE PutUrls = <<AllLightsUrl>>

\* C1 witness: a completed run with a selector that one of two fetched
\* lights matches, so one per-light PUT was issued.
C1_Witness ==
    /\ pc = "done"
    /\ PerLight
    /\ Len(lights) = 2
    /\ Len(PutUrls) = 1

\* C2: every PUT to a per-light endpoint targets a fetched light that the
\* selector names, and when the run completes every fetched light the
\* selector names (the empty selector names all) has been targeted.
C2_TargetedIffSelectorNames ==
    /\ \A i \in 1..Len(PutUrls) :
          PutUrls[i] # AllLightsUrl =>
              \E k \in 1..Len(lights) :
                  /\ PutUrls[i] = LightUrl(lights[k].id)
                  /\ SelectorNames(lights[k], matches[1].selector[1])
    /\ (pc = "done" /\ PerLight) =>
          \A k \in 1..Len(lights) :
              Targeted(lights[k]) <=> SelectorNames(lights[k], matches[1].selector[1])

\* C2 witness: a completed run whose selector has an upper-case letter,
\* where one light was targeted through its group name only and another
\* fetched light was not targeted.
C2_Witness ==
    /\ pc = "done"
    /\ PerLight
    /\ 66 \in Range(matches[1].selector[1])
    /\ \E j, k \in 1..Len(lights) :
          /\ Targeted(lights[j])
          /\ ~IsSubstring(ToAsciiLowercase(matches[1].selector[1]),
                          ToAsciiLowercase(lights[j].label))
          /\ ~Targeted(lights[k])

HasKey(body, k) == \E i \in 1..Len(body) : body[i].key = k

\* C3: the body of every PUT has a key for power, brightness or color
\* exactly when that field of the desired state is set, and no value is
\* null.
C3_BodyOmitsUnsetFields ==
    \A i \in 1..Len(PutRequests) :
        LET body == PutRequests[i].body[1]
        IN  /\ HasKey(body, "power") <=> state[1].power # None
            /\ HasKey(body, "brightness") <=> state[1].brightness # None
            /\ HasKey(body, "color") <=> state[1].color # None
            /\ \A j \in 1..Len(body) : body[j].value # JsonNull

\* The JSON text of the power the flags ask for: "on" if --on is given,
\* else "off" if --off is given, else nothing.
FlagsPowerJson(m) ==
    IF m.on THEN Some(<<34, 111, 110, 34>>)
    ELSE IF m.off THEN Some(<<34, 111, 102, 102, 34>>)
    ELSE None

PowerMember(body) == body[CHOOSE i \in 1..Len(body) : body[i].key = "power"]

\* C4: the power of the desired state depends on --on and --off only: On
\* with --on (also with --off beside it, which is accepted), Off with only
\* --off, unset with neither; every PUT of the run carries that power and
\* the same body.
C4_PowerFromFlags ==
    /\ state # None =>
          state[1].power = (IF matches[1].on THEN Some("On")
                            ELSE IF matches[1].off THEN Some("Off")
                            ELSE None)
    /\ \A i \in 1..Len(PutRequests) :
          /\ PutRequests[i].body = PutRequests[1].body
          /\ LET want == FlagsPowerJson(matches[1])
                 sent == PowerMember(PutRequests[i].body[1]).value
             IN  IF want = None THEN sent = JsonNull ELSE sent = want[1]

\* C4 witness: a completed run given both --on and --off that sent two
\* PUTs.
C4_Witness ==
    /\ pc = "done"
    /\ IsSet
    /\ matches[1].on
    /\ matches[1].off
    /\ Len(PutRequests) = 2

\* C5: a response with a non-2xx status is fatal where it occurs: the next
\* step of the program is the abort, with exit code 1, no further request
\* and no output for that response.
C5_Non2xxIsFatal ==
    [][(http # None /\ ~IsSuccess(http[1].status)) =>
          (pc' = "failed" /\ exit' = Some(1) /\ requests' = requests
           /\ output' = output)]_vars

IsHeader(t) == t.kind \in {"updating", "setting_all"}

\* The output printed since the last PUT was announced.
LastReport ==
    LET hs == {i \in 1..Len(output) : IsHeader(output[i])}
        h  == IF hs = {} THEN 0 ELSE CHOOSE i \in hs : \A j \in hs : j <= i
    IN  SubSeq(output, h + 1, Len(output))

PrintedStatuses(t) ==
    LET st == SelectSeq(t, LAMBDA x : x.kind = "status")
    IN  [i \in 1..Len(st) |-> st[i].text[1]]

ShowsError(t, e) ==
    \E i \in 1..Len(t) : t[i].kind = "raw" /\ t[i].text[2] = e

\* C6: once a PUT response has been reported, the output shows its
\* content: all statuses when `results` is present, the raw response when
\* it is absent, and in every case the statuses or the error the response
\* carries.
C6_NoResponseDropped ==
    (resp # None /\ pc \in {"next_light", "done"}) =>
        LET r == resp[1]
            t == LastReport
        IN  /\ r.results # None => PrintedStatuses(t) = r.results[1]
            /\ r.results = None =>
                  \E i \in 1..Len(t) :
                      t[i].kind = "raw" /\ t[i].text = <<r.results, r.error>>
            /\ r.error # None =>
                  \/ ShowsError(t, r.error)
                  \/ (r.results # None /\ r.results[1] # <<>>)

\* The positions of the per-light headers in the output.
Headers == {i \in 1..Len(output) : output[i].kind = "updating"}

\* The output reports a vendor failure (a status other than ok, or the raw
\* response) before position p.
VendorFailureBefore(p) ==
    \E i \in 1..(p - 1) :
        \/ output[i].kind = "raw"
        \/ output[i].kind = "status" /\ output[i].text[1] # "ok"

\* C7 as stated: in per-light dispatch a PUT is attempted for every light
\* the selector matches, whatever became of the requests before it, so a
\* run that has ended has attempted them all.
C7_EveryMatchAttempted ==
    (pc \in {"done", "failed"} /\ PerLight /\ state # None) =>
        Len(PutUrls) = Len(MatchedLights)

\* C7 amended: a vendor-reported failure (a non-ok status, an error string)
\* does not stop the loop, so a run that completes has attempted every
\* matching light; a transport failure or an unparseable response on a PUT
\* ends the run there with exit code 1: the failed PUT is the last request
\* and nothing further can happen.
C7_VendorFailureDoesNotStopLoop ==
    /\ (pc = "done" /\ PerLight) => PutUrls = MatchedUrls
    /\ (pc = "next_light" /\ resp # None) =>
          (ENABLED NextLight <=> Len(PutUrls) < Len(MatchedLights))
    /\ (pc = "failed" /\ PutUrls # <<>>) =>
          /\ failure \in {Some("transport"), Some("json")}
          /\ exit = Some(1)
          /\ requests[Len(requests)].method = "PUT"
          /\ ~ENABLED Next

\* C7 witness: a completed per-light run of two PUTs in which the first
\* light's report showed a vendor failure.
C7_Witness ==
    /\ pc = "done"
    /\ PerLight
    /\ Len(PutUrls) = 2
    /\ \E p \in Headers : p > 1 /\ VendorFailureBefore(p)

\* Bytes that occur in some text str::parse::<f32> accepts: digits, sign,
\* '.', exponent, and the letters of inf, infinity and nan in either case.
F32Bytes ==
    (48..57) \cup {43, 45, 46, 69, 101}
    \cup {73, 78, 70, 84, 89, 65} \cup {105, 110, 102, 116, 121, 97}

Unparseable(b) == \E i \in 1..Len(b) : b[i] \notin F32Bytes

BadBrightness ==
    /\ IsSet
    /\ matches[1].brightness # None
    /\ Unparseable(matches[1].brightness[1])

\* C8 as stated: after the abort on an unparseable brightness no request
\* has been issued.
C8_NoRequestAtAll ==
    failure = Some("brightness") => requests = <<>>

\* C8 amended: an unparseable brightness is fatal for the whole run and is
\* detected once, when the payload is built: the run ends with exit code 1
\* and no PUT is ever issued, whatever the selector matches; the inventory
\* GET was issued, and answered, before the command line was looked at.
C8_BadBrightnessPreventsAllPuts ==
    BadBrightness =>
        /\ PutRequests = <<>>
        /\ requests = <<[method |-> "GET", url |-> AllLightsUrl,
                         auth |-> token, body |-> None]>>
        /\ inflight = {}
        /\ pc \in {"branch", "failed"}
        /\ pc = "failed" =>
              /\ failure = Some("brightness")
              /\ exit = Some(1)
              /\ state = None
              /\ output = <<>>
              /\ ~ENABLED Next

\* C8 witness: the run was aborted on the brightness with a selector that
\* matches two fetched lights.
C8_Witness ==
    /\ failure = Some("brightness")
    /\ PerLight
    /\ Len(MatchedLights) = 2

\* C9: the inventory GET is issued only after the command line has been
\* parsed successfully; a run that ends in clap (usage, help) has made no
\* request and has not read the token.
C9_ParseBeforeFetch ==
    /\ requests # <<>> => matches # None
    /\ pc = "exited" => (requests = <<>> /\ token = None)

IsPrefix(s, t) == Len(s) <= Len(t) /\ SubSeq(t, 1, Len(s)) = s

\* C10: at most one request is outstanding, and it is the latest one; the
\* GET is the first request and is answered before any PUT; per-light PUTs
\* go out in the order of the matching lights in the inventory; and every
\* PUT but the latest has its report, ended by a newline, in the output
\* before the next light's header.
C10_StrictlySequential ==
    /\ Cardinality(inflight) <= 1
    /\ inflight \subseteq {Len(requests)}
    /\ \A i \in 1..Len(requests) :
          (requests[i].method = "GET") <=> (i = 1)
    /\ PerLight =>
          /\ IsPrefix(PutUrls, MatchedUrls)
          /\ Cardinality(Headers) = Len(PutUrls)
          /\ \A p \in Headers : p > 1 => output[p - 1].kind = "newline"
          /\ pc = "await_put" => output[Len(output)].kind = "updating"

\* C10 witness: the second per-light PUT is outstanding, after the first
\* light's report.
C10_Witness ==
    /\ pc = "await_put"
    /\ PerLight
    /\ Len(PutUrls) = 2
    /\ inflight = {3}
    /\ Len(output) > 2

====
